---- MODULE Spec2Model ----
(***************************************************************************)
(* PGrav (fatiando/geoinv/pgrav.py): assembly of the sensibility matrix,   *)
(* the data vector and covariance, the first-derivative matrix and the     *)
(* depth weights of the 3D gravity inversion.                              *)
(*                                                                         *)
(* Python indices are 0-based, TLA+ sequences are 1-based: row r / column  *)
(* c of the code is element r + 1 / c + 1 of the sequences below.  The     *)
(* loop counters (deriv_i, param_i, l) keep the code's 0-based values.     *)
(***************************************************************************)
EXTENDS Integers, Sequences, FiniteSets, TLC

VARIABLES args, self, ret

vars == <<args, self, ret>>

(***************************************************************************)
(* Bounds of the explored inputs.                                          *)
(***************************************************************************)
MaxNx == 2
MaxNy == 2
MaxNz == 7
MaxObs == 2
MaxSupplied == 2

\* model-box edges offered to the constructor: a proper, an inverted and an
\* empty interval per axis
Intervals == {<<0, 17>>, <<17, 0>>, <<0, 0>>}

\* reference heights and decay powers offered to depth_weights
Z0s == {0, 0 - 9}
Powers == {0 - 1, 0, 1, 2}

\* Python's None, and the absence of an instance or of a result
NoneVal == <<>>

\* declaration order of the optional channels in every assembly method
Channels == <<"gz", "gxx", "gxy", "gxz", "gyy", "gyz", "gzz">>

ChannelNames == {Channels[k] : k \in 1..Len(Channels)}

ChanIdx(c) == CHOOSE k \in 1..Len(Channels) : Channels[k] = c

(***************************************************************************)
(* Exact rationals <<numerator, denominator>>, denominator > 0, in lowest  *)
(* terms: the real values the coordinates stand for.                       *)
(***************************************************************************)
Abs(i) == IF i < 0 THEN 0 - i ELSE i

RECURSIVE GCD(_, _)
GCD(a, b) == IF b = 0 THEN a ELSE GCD(b, a % b)

Rat(n, d) ==
    LET g == GCD(Abs(n), Abs(d))
        s == IF d < 0 THEN 0 - 1 ELSE 1
    IN <<(s * n) \div g, (s * d) \div g>>

RatAdd(p, q) == Rat(p[1] * q[2] + q[1] * p[2], p[2] * q[2])

RatDiv(p, q) == Rat(p[1] * q[2], p[2] * q[1])

RatLess(p, q) == p[1] * q[2] < q[1] * p[2]

(***************************************************************************)
(* IEEE-754 binary64 division, round to nearest even, on positive values.  *)
(* A double is [m |-> <<hi, lo>>, e |-> e] with the 53-bit significand     *)
(* hi * 2^26 + lo (2^26 <= hi < 2^27) and the value significand * 2^e.     *)
(***************************************************************************)
Limb == 2^26

BigGE(a, b) == a[1] > b[1] \/ (a[1] = b[1] /\ a[2] >= b[2])

BigSub(a, b) ==
    IF a[2] >= b[2] THEN <<a[1] - b[1], a[2] - b[2]>>
    ELSE <<a[1] - b[1] - 1, a[2] + Limb - b[2]>>

BigDbl(a) == <<2 * a[1] + (2 * a[2]) \div Limb, (2 * a[2]) % Limb>>

\* float(k) of a positive integer k
RECURSIVE DblOfInt(_, _)
DblOfInt(k, e) ==
    IF k >= Limb THEN [m |-> <<k, 0>>, e |-> e - 26]
    ELSE DblOfInt(2 * k, e - 1)

\* one shift-and-subtract step: the remainder and the quotient after it
NextRem(r2, d) == IF BigGE(r2, d) THEN BigSub(r2, d) ELSE r2

NextQuot(q2, r2, d) == <<q2[1], q2[2] + (IF BigGE(r2, d) THEN 1 ELSE 0)>>

\* n further quotient bits of rem / d by shift and subtract
RECURSIVE DivBits(_, _, _, _)
DivBits(rem, q, d, n) ==
    IF n = 0 \/ q[1] < 0 THEN <<q, rem>>
    ELSE DivBits(NextRem(BigDbl(rem), d),
                 NextQuot(BigDbl(q), BigDbl(rem), d), d, n - 1)

DivMore(s, d, n) == DivBits(s[2], s[1], d, n)

DivMant(rem, q, d, n) ==
    DivMore(DivMore(DivMore(DivBits(rem, q, d, 13), d, 13), d, 13), d, n - 39)

\* round to nearest, ties to even
RoundUp(q, r2, d) == IF r2 = d THEN q[2] % 2 = 1 ELSE BigGE(r2, d)

Incr(q) == IF q[2] + 1 = Limb THEN <<q[1] + 1, 0>> ELSE <<q[1], q[2] + 1>>

Norm(qi, e0) ==
    IF qi[1] = 2 * Limb THEN [m |-> <<Limb, 0>>, e |-> e0 + 1]
    ELSE [m |-> qi, e |-> e0]

Round(qr, d, e0) ==
    Norm(IF RoundUp(qr[1], BigDbl(qr[2]), d) THEN Incr(qr[1]) ELSE qr[1], e0)

FlDiv(x, y) ==
    IF BigGE(x.m, y.m)
    THEN Round(DivMant(BigSub(x.m, y.m), <<0, 1>>, y.m, 52), y.m,
               x.e - y.e - 52)
    ELSE Round(DivMant(x.m, <<0, 0>>, y.m, 53), y.m, x.e - y.e - 53)

\* ceil of a double below 2^27
DblCeilParts(hi, lo, s) ==
    IF s >= 27 THEN 1
    ELSE (hi \div 2^s) + (IF hi % 2^s # 0 \/ lo # 0 THEN 1 ELSE 0)

DblCeil(x) == DblCeilParts(x.m[1], x.m[2], (0 - x.e) - 26)

(***************************************************************************)
(* The data containers (fatiando.data.gravity) are used through len(d),    *)
(* d.loc(i), d.array and d.std.  A container with m observations holds m   *)
(* locations, m values and m standard deviations; the contents are         *)
(* distinct per (channel, observation) so that any reordering shows.       *)
(***************************************************************************)
LocOf(c, t) == <<10 * ChanIdx(c) + t, t, 0 - 1>>

Observations(c, m) ==
    [loc   |-> [t \in 1..m |-> LocOf(c, t)],
     array |-> [t \in 1..m |-> 100 * ChanIdx(c) + t],
     std   |-> [t \in 1..m |-> 4 * ChanIdx(c) + t]]

DataLen(d) == Len(d.loc)

\* truth value of a constructor argument: None is false, and so is an
\* object whose __len__ is 0
Truthy(d) == d # NoneVal /\ DataLen(d) > 0

(***************************************************************************)
(* Constructor arguments.                                                  *)
(***************************************************************************)
MkArgs(bx, by, bz, nx, ny, nz, ch) ==
    [x1 |-> bx[1], x2 |-> bx[2], y1 |-> by[1], y2 |-> by[2],
     z1 |-> bz[1], z2 |-> bz[2], nx |-> nx, ny |-> ny, nz |-> nz,
     gz |-> ch["gz"], gxx |-> ch["gxx"], gxy |-> ch["gxy"],
     gxz |-> ch["gxz"], gyy |-> ch["gyy"], gyz |-> ch["gyz"],
     gzz |-> ch["gzz"]]

ProperBox == <<0, 17>>

\* an axis is well formed when it has a positive cell count and lo < hi
GoodAxis(b, n) == n >= 1 /\ b[1] < b[2]

ValidGrid(a) ==
    /\ GoodAxis(<<a.x1, a.x2>>, a.nx)
    /\ GoodAxis(<<a.y1, a.y2>>, a.ny)
    /\ GoodAxis(<<a.z1, a.z2>>, a.nz)

AxisInputs(max) == Intervals \X ((0 - 1)..max)

\* every grid with at most one ill-formed axis
GridInputs ==
    {g \in AxisInputs(MaxNx) \X AxisInputs(MaxNy) \X AxisInputs(MaxNz) :
        Cardinality({k \in 1..3 : ~GoodAxis(g[k][1], g[k][2])}) <= 1}

\* every choice of at most MaxSupplied channel objects, each holding
\* 0..MaxObs observations
ChanInputs ==
    {ch \in [ChannelNames ->
               {NoneVal} \cup {<<m>> : m \in 0..MaxObs}] :
        Cardinality({c \in ChannelNames : ch[c] # NoneVal}) <= MaxSupplied}

MkChans(ch) ==
    [c \in ChannelNames |->
        IF ch[c] = NoneVal THEN NoneVal ELSE Observations(c, ch[c][1])]

BaseChans ==
    [c \in ChannelNames |->
        IF c = "gz" THEN <<1>> ELSE IF c = "gzz" THEN <<2>> ELSE NoneVal]

BaseGrid == <<<<ProperBox, 2>>, <<ProperBox, 1>>, <<ProperBox, 2>>>>

Inputs ==
    {<<g, BaseChans>> : g \in GridInputs}
        \cup {<<BaseGrid, ch>> : ch \in ChanInputs}

Init ==
    /\ \E i \in Inputs :
         args = MkArgs(i[1][1][1], i[1][2][1], i[1][3][1],
                       i[1][1][2], i[1][2][2], i[1][3][2], MkChans(i[2]))
    /\ self = NoneVal
    /\ ret = NoneVal

(***************************************************************************)
(* The result of a call: the operation, its arguments, the exception it    *)
(* raised ("" when it returned), the value it returned, the writes its     *)
(* loops made into a pre-sized array, and its final loop counters.         *)
(***************************************************************************)
Result(op, in, raised, val, writes, fin) ==
    [op |-> op, in |-> in, raised |-> raised, val |-> val,
     writes |-> writes, fin |-> fin]

Returned(op) == ret # NoneVal /\ ret.op = op /\ ret.raised = ""

\* An instance exists and awaits a request.  The methods read self and
\* never write it, so the result of a request does not depend on the
\* requests before it: a behaviour constructs and then makes one request.
Ready == self # NoneVal /\ ret.op = "__init__"

(***************************************************************************)
(* PGrav.__init__                                                          *)
(***************************************************************************)
\* the test with its last operand forgotten
AnyChannelButGzz(a) ==
    Truthy(a.gz) \/ Truthy(a.gxx) \/ Truthy(a.gxy) \/ Truthy(a.gxz)
        \/ Truthy(a.gyy) \/ Truthy(a.gyz)

\* gz or gxx or gxy or gxz or gyy or gyz or gzz
AnyChannel(a) ==
    Truthy(a.gz) \/ Truthy(a.gxx) \/ Truthy(a.gxy) \/ Truthy(a.gxz)
        \/ Truthy(a.gyy) \/ Truthy(a.gyz) \/ Truthy(a.gzz)

Fields(a) ==
    [_gz |-> a.gz, _gxx |-> a.gxx, _gxy |-> a.gxy, _gxz |-> a.gxz,
     _gyy |-> a.gyy, _gyz |-> a.gyz, _gzz |-> a.gzz,
     _mod_x1 |-> a.x1, _mod_x2 |-> a.x2, _mod_y1 |-> a.y1,
     _mod_y2 |-> a.y2, _mod_z1 |-> a.z1, _mod_z2 |-> a.z2,
     _nx |-> a.nx, _ny |-> a.ny, _nz |-> a.nz]

Construct ==
    /\ self = NoneVal
    /\ ret = NoneVal
    /\ IF ~AnyChannel(args)
       THEN /\ self' = NoneVal
            /\ ret' = Result("__init__", <<>>, "RuntimeError", NoneVal,
                             <<>>, <<>>)
       ELSE /\ self' = Fields(args)
            /\ ret' = Result("__init__", <<>>, "", NoneVal, <<>>, <<>>)
    /\ UNCHANGED args

\* the channel object stored for a name
Chan(s, c) ==
    CASE c = "gz" -> s._gz [] c = "gxx" -> s._gxx [] c = "gxy" -> s._gxy
      [] c = "gxz" -> s._gxz [] c = "gyy" -> s._gyy [] c = "gyz" -> s._gyz
      [] c = "gzz" -> s._gzz

RECURSIVE Flatten(_)
\* successive list appends: the concatenation of a sequence of sequences
Flatten(ss) ==
    IF ss = <<>> THEN <<>>
    ELSE Flatten(SubSeq(ss, 1, Len(ss) - 1)) \o ss[Len(ss)]

(***************************************************************************)
(* Discretisation of one axis: dx = (hi - lo)/n and                        *)
(* numpy.arange(lo, hi, dx), whose length is ceil((hi - lo)/dx) evaluated  *)
(* in double precision; the elements stand for lo + i*dx.                  *)
(***************************************************************************)
\* float division by zero, in (hi - lo)/n or inside arange
AxisRaises(lo, hi, n) == n = 0 \/ hi = lo

CellSize(lo, hi, n) == Rat(hi - lo, n)

\* ceil((hi - lo)/dx) in double precision, dx = (hi - lo)/n
FloatLen(a, n) == DblCeil(FlDiv(a, FlDiv(a, n)))

ArangeLen(lo, hi, n) ==
    IF n < 0 THEN 0
    ELSE FloatLen(DblOfInt(Abs(hi - lo), 0), DblOfInt(n, 0))

Arange(lo, hi, n) ==
    [i \in 1..ArangeLen(lo, hi, n) |-> Rat(lo * n + (i - 1) * (hi - lo), n)]

(***************************************************************************)
(* PGrav._build_sensibility                                                *)
(***************************************************************************)
\* prism_gravity.<f>(1., x, x + dx, y, y + dy, z, z + dz, xp, yp, zp)
Kernel(f, x, dx, y, dy, z, dz, p) ==
    [f |-> f,
     prism |-> <<x, RatAdd(x, dx), y, RatAdd(y, dy), z, RatAdd(z, dz)>>,
     at |-> p]

\* the grid of one call: cell sizes and prism corners along each axis
Prisms(s) ==
    [dx |-> CellSize(s._mod_x1, s._mod_x2, s._nx),
     dy |-> CellSize(s._mod_y1, s._mod_y2, s._ny),
     dz |-> CellSize(s._mod_z1, s._mod_z2, s._nz),
     xs |-> Arange(s._mod_x1, s._mod_x2, s._nx),
     ys |-> Arange(s._mod_y1, s._mod_y2, s._ny),
     zs |-> Arange(s._mod_z1, s._mod_z2, s._nz)]

\* one line: prisms z-outer, y-middle, x-inner
SensLine(g, f, p) ==
    Flatten([k \in 1..Len(g.zs) |->
       Flatten([j \in 1..Len(g.ys) |->
          [i \in 1..Len(g.xs) |->
             Kernel(f, g.xs[i], g.dx, g.ys[j], g.dy, g.zs[k], g.dz, p)]])])

\* the gzz block moved in front of the gz block
SensOrderGzzFirst == <<"gzz", "gz", "gxx", "gxy", "gxz", "gyy", "gyz">>

\* the order of the "if self._g..:" blocks of _build_sensibility
SensOrder == <<"gz", "gxx", "gxy", "gxz", "gyy", "gyz", "gzz">>

SensBlock(s, g, f) ==
    IF Truthy(Chan(s, f))
    THEN [t \in 1..DataLen(Chan(s, f)) |-> SensLine(g, f, Chan(s, f).loc[t])]
    ELSE <<>>

SensRows(s, g) ==
    Flatten([k \in 1..Len(SensOrder) |-> SensBlock(s, g, SensOrder[k])])

BuildSensibilityCall(s) ==
    IF \/ AxisRaises(s._mod_x1, s._mod_x2, s._nx)
       \/ AxisRaises(s._mod_y1, s._mod_y2, s._ny)
       \/ AxisRaises(s._mod_z1, s._mod_z2, s._nz)
    THEN Result("_build_sensibility", <<>>, "ZeroDivisionError", NoneVal,
                <<>>, <<>>)
    ELSE Result("_build_sensibility", <<>>, "", SensRows(s, Prisms(s)),
                <<>>, <<>>)

BuildSensibility ==
    /\ Ready
    /\ ret' = BuildSensibilityCall(self)
    /\ UNCHANGED <<args, self>>

(***************************************************************************)
(* PGrav._get_data_array and PGrav._get_data_cov                           *)
(***************************************************************************)
\* the gxx and gxy blocks exchanged
DataOrderSwapped == <<"gz", "gxy", "gxx", "gxz", "gyy", "gyz", "gzz">>

\* the order of the "if self._g..:" blocks of _get_data_array
DataOrder == <<"gz", "gxx", "gxy", "gxz", "gyy", "gyz", "gzz">>

\* the order of the "if self._g..:" blocks of _get_data_cov
CovOrder == <<"gz", "gxx", "gxy", "gxz", "gyy", "gyz", "gzz">>

GetDataArrayCall(s) ==
    Result("_get_data_array", <<>>, "",
           Flatten([k \in 1..Len(DataOrder) |->
                      IF Truthy(Chan(s, DataOrder[k]))
                      THEN Chan(s, DataOrder[k]).array ELSE <<>>]),
           <<>>, <<>>)

\* numpy.diag(stddev): the square forgotten
DiagOfStddev(stddev) ==
    [r \in 1..Len(stddev) |->
       [c \in 1..Len(stddev) |-> IF r = c THEN stddev[r] ELSE 0]]

\* numpy.diag(stddev**2)
DiagOfSquares(stddev) ==
    [r \in 1..Len(stddev) |->
       [c \in 1..Len(stddev) |->
          IF r = c THEN stddev[r] * stddev[r] ELSE 0]]

GetDataCovCall(s) ==
    Result("_get_data_cov", <<>>, "",
           DiagOfSquares(
             Flatten([k \in 1..Len(CovOrder) |->
                        IF Truthy(Chan(s, CovOrder[k]))
                        THEN Chan(s, CovOrder[k]).std ELSE <<>>])),
           <<>>, <<>>)

GetDataArray ==
    /\ Ready
    /\ ret' = GetDataArrayCall(self)
    /\ UNCHANGED <<args, self>>

GetDataCov ==
    /\ Ready
    /\ ret' = GetDataCovCall(self)
    /\ UNCHANGED <<args, self>>

(***************************************************************************)
(* PGrav._build_first_deriv.  The loop state is the pair of counters, the  *)
(* writes made so far into first_deriv as <<row, column, value>>, and the  *)
(* exception that ended the loops ("" while running).                      *)
(***************************************************************************)
\* the z term written with nz in place of ny
DerivNumSlip(s) ==
    (s._nx - 1) * s._ny * s._nz + (s._ny - 1) * s._nx * s._nz
        + (s._nz - 1) * s._nx * s._nz

DerivNum(s) ==
    (s._nx - 1) * s._ny * s._nz + (s._ny - 1) * s._nx * s._nz
        + (s._nz - 1) * s._nx * s._ny

ParamNum(s) == s._nx * s._ny * s._nz

\* first_deriv[row][col] = v on an array of shape (rows, cols)
Put(st, row, col, v, rows, cols) ==
    IF st.raised # "" THEN st
    ELSE IF row >= rows \/ col >= cols
         THEN [st EXCEPT !.raised = "IndexError"]
         ELSE [st EXCEPT !.writes = Append(@, <<row, col, v>>)]

\* the body of an innermost loop: +1 at param_i, -1 at param_i + off
DerivBody(s, st, off) ==
    LET a == Put(st, st.deriv_i, st.param_i, 1, DerivNum(s), ParamNum(s))
        b == Put(a, st.deriv_i, st.param_i + off, 0 - 1,
                 DerivNum(s), ParamNum(s))
    IN IF b.raised # "" THEN b
       ELSE [b EXCEPT !.deriv_i = @ + 1, !.param_i = @ + 1]

Bump(st, by) ==
    IF st.raised # "" THEN st ELSE [st EXCEPT !.param_i = @ + by]

RECURSIVE LoopI(_, _, _, _, _)
\* for i in xrange(ni): body
LoopI(s, st, ni, off, i) ==
    IF i >= ni \/ st.raised # "" THEN st
    ELSE LoopI(s, DerivBody(s, st, off), ni, off, i + 1)

RECURSIVE LoopJ(_, _, _, _, _, _, _)
\* for j in xrange(nj): (for i ...); param_i += afterI
LoopJ(s, st, nj, ni, off, afterI, j) ==
    IF j >= nj \/ st.raised # "" THEN st
    ELSE LoopJ(s, Bump(LoopI(s, st, ni, off, 0), afterI),
               nj, ni, off, afterI, j + 1)

RECURSIVE LoopK(_, _, _, _, _, _, _, _, _)
\* for k in xrange(nk): (for j ...); param_i += afterJ
LoopK(s, st, nk, nj, ni, off, afterI, afterJ, k) ==
    IF k >= nk \/ st.raised # "" THEN st
    ELSE LoopK(s, Bump(LoopJ(s, st, nj, ni, off, afterI, 0), afterJ),
               nk, nj, ni, off, afterI, afterJ, k + 1)

\* the x block without the "param_i += 1" that skips the end of a line
XBlockNoSkip(s, st) ==
    LoopK(s, [st EXCEPT !.param_i = 0],
          s._nz, s._ny, s._nx - 1, 1, 0, 0, 0)

\* derivatives in the x direction
XBlock(s, st) ==
    LoopK(s, [st EXCEPT !.param_i = 0],
          s._nz, s._ny, s._nx - 1, 1, 1, 0, 0)

\* derivatives in the y direction
YBlock(s, st) ==
    LoopK(s, [st EXCEPT !.param_i = 0],
          s._nz, s._ny - 1, s._nx, s._nx, 0, s._nx, 0)

\* the z block without the "param_i = 0" in front of it
ZBlockNoReset(s, st) ==
    LoopK(s, st, s._nz - 1, s._ny, s._nx, s._nx * s._ny, 0, 0, 0)

\* derivatives in the z direction
ZBlock(s, st) ==
    LoopK(s, [st EXCEPT !.param_i = 0],
          s._nz - 1, s._ny, s._nx, s._nx * s._ny, 0, 0, 0)

AfterX(s) ==
    XBlock(s, [deriv_i |-> 0, param_i |-> 0, writes |-> <<>>, raised |-> ""])

AfterY(s) == YBlock(s, AfterX(s))

AfterZ(s) == ZBlock(s, AfterY(s))

\* numpy.zeros((rows, cols)) after the writes, in order
Written(rows, cols, writes) ==
    [r \in 1..rows |->
       LET mine == SelectSeq(writes, LAMBDA w : w[1] = r - 1)
       IN [c \in 1..cols |->
             LET at == {i \in 1..Len(mine) : mine[i][2] = c - 1}
             IN IF at = {} THEN 0
                ELSE mine[CHOOSE i \in at : \A j \in at : j <= i][3]]]

BuildFirstDerivCall(s) ==
    IF DerivNum(s) < 0 \/ ParamNum(s) < 0
    THEN Result("_build_first_deriv", <<>>, "ValueError", NoneVal,
                <<>>, <<>>)
    ELSE LET st == AfterZ(s)
             fin == [deriv_i |-> st.deriv_i, param_i |-> st.param_i,
                     deriv_num |-> DerivNum(s), param_num |-> ParamNum(s)]
         IN IF st.raised # ""
            THEN Result("_build_first_deriv", <<>>, st.raised, NoneVal,
                        st.writes, fin)
            ELSE Result("_build_first_deriv", <<>>, "",
                        Written(DerivNum(s), ParamNum(s), st.writes),
                        st.writes, fin)

BuildFirstDeriv ==
    /\ Ready
    /\ ret' = BuildFirstDerivCall(self)
    /\ UNCHANGED <<args, self>>

(***************************************************************************)
(* PGrav.depth_weights.  The real number b^(-power/2), b > 0, is the       *)
(* record [b |-> b, p |-> power]; with p = 0 it is 1 whatever b, and is    *)
(* kept as b = 1.  ZeroW is the number 0 of the off-diagonal entries.      *)
(***************************************************************************)
PowVal(b, p) == [b |-> IF p = 0 THEN <<1, 1>> ELSE b, p |-> p]

OneW(p) == PowVal(<<1, 1>>, p)

ZeroW == [b |-> <<0, 1>>, p |-> 0]

\* u <= v for two weights of the same power
WLeq(u, v) ==
    IF u.p > 0 THEN ~RatLess(u.b, v.b)
    ELSE IF u.p < 0 THEN ~RatLess(v.b, u.b)
    ELSE TRUE

\* u / m
WDiv(u, m) == PowVal(RatDiv(u.b, m.b), u.p)

\* depth + 0.5*dz + z0
WeightBase(depth, dz, z0) ==
    RatAdd(RatAdd(depth, Rat(dz[1], 2 * dz[2])), <<z0, 1>>)

\* weight[l][l] = 1./(math.sqrt(depth + 0.5*dz + z0)**power)
WeightBody(s, st, depth, dz, z0, power) ==
    LET b == WeightBase(depth, dz, z0)
    IN IF st.raised # "" THEN st
       ELSE IF b[1] < 0 THEN [st EXCEPT !.raised = "ValueError"]
       ELSE IF b[1] = 0 /\ power # 0
            THEN [st EXCEPT !.raised = "ZeroDivisionError"]
       ELSE IF st.l >= ParamNum(s)
            THEN [st EXCEPT !.raised = "IndexError"]
       ELSE [st EXCEPT
               !.writes = Append(@, <<st.l, IF b[1] = 0 THEN OneW(power)
                                            ELSE PowVal(b, power)>>),
               !.l = @ + 1]

RECURSIVE LoopCell(_, _, _, _, _, _, _)
\* for j in xrange(self._ny*self._nx): body
LoopCell(s, st, depth, dz, z0, power, j) ==
    IF j >= s._ny * s._nx \/ st.raised # "" THEN st
    ELSE LoopCell(s, WeightBody(s, st, depth, dz, z0, power),
                  depth, dz, z0, power, j + 1)

RECURSIVE LoopDepth(_, _, _, _, _, _, _)
\* for depth in depths: (for j ...)
LoopDepth(s, st, depths, dz, z0, power, k) ==
    IF k > Len(depths) \/ st.raised # "" THEN st
    ELSE LoopDepth(s, LoopCell(s, st, depths[k], dz, z0, power, 0),
                   depths, dz, z0, power, k + 1)

\* numpy.identity(n) after the writes: the diagonal
Diagonal(n, writes, power) ==
    [r \in 1..n |->
       LET at == {i \in 1..Len(writes) : writes[i][1] = r - 1}
       IN IF at = {} THEN OneW(power)
          ELSE writes[CHOOSE i \in at : \A j \in at : j <= i][2]]

\* the smallest diagonal entry taken for the largest
MinW(diag) ==
    diag[CHOOSE r \in 1..Len(diag) : \A q \in 1..Len(diag) :
            WLeq(diag[r], diag[q])]

\* weight.max() of a matrix with a positive diagonal
MaxW(diag) ==
    diag[CHOOSE r \in 1..Len(diag) : \A q \in 1..Len(diag) :
            WLeq(diag[q], diag[r])]

\* weight/weight.max()
Normalised(diag) ==
    [r \in 1..Len(diag) |->
       [c \in 1..Len(diag) |->
          IF r = c THEN WDiv(diag[r], MaxW(diag)) ELSE ZeroW]]

DepthWeightsCall(s, z0, power) ==
    IF ParamNum(s) < 0
    THEN Result("depth_weights", <<z0, power>>, "ValueError", NoneVal,
                <<>>, <<>>)
    ELSE IF AxisRaises(s._mod_z1, s._mod_z2, s._nz)
    THEN Result("depth_weights", <<z0, power>>, "ZeroDivisionError",
                NoneVal, <<>>, <<>>)
    ELSE LET dz == CellSize(s._mod_z1, s._mod_z2, s._nz)
             depths == Arange(s._mod_z1, s._mod_z2, s._nz)
             st == LoopDepth(s, [l |-> 0, writes |-> <<>>, raised |-> ""],
                             depths, dz, z0, power, 1)
             fin == [l |-> st.l, param_num |-> ParamNum(s),
                     layers |-> Len(depths)]
         IN IF st.raised # ""
            THEN Result("depth_weights", <<z0, power>>, st.raised, NoneVal,
                        st.writes, fin)
            ELSE IF ParamNum(s) = 0
            THEN Result("depth_weights", <<z0, power>>, "ValueError",
                        NoneVal, st.writes, fin)
            ELSE Result("depth_weights", <<z0, power>>, "",
                        Normalised(Diagonal(ParamNum(s), st.writes, power)),
                        st.writes, fin)

DepthWeights ==
    /\ Ready
    /\ \E z0 \in Z0s, power \in Powers :
          ret' = DepthWeightsCall(self, z0, power)
    /\ UNCHANGED <<args, self>>

(***************************************************************************)
(* PGrav.plot_adjustment.  self._sensibility is the matrix of              *)
(* _build_sensibility and entry r of numpy.dot(self._sensibility,          *)
(* self.mean) is the product of its row r with the mean; the state of the  *)
(* method is what is left of adjusted, the blocks cut so far as            *)
(* <<channel, block>>, and the exception that ended it.                    *)
(***************************************************************************)
\* the cell counts of the shape argument
Shapes == 1..MaxObs

\* numpy.dot(self._sensibility, self.mean)
Dot(sens) == [r \in 1..Len(sens) |-> [row |-> sens[r]]]

\* v[:n] and v[n:] of a one-dimensional array
Take(v, n) == SubSeq(v, 1, IF n < Len(v) THEN n ELSE Len(v))

Drop(v, n) == SubSeq(v, (IF n < Len(v) THEN n ELSE Len(v)) + 1, Len(v))

\* the order of the "if self._g..:" blocks of plot_adjustment
PlotOrder == <<"gxx", "gxy", "gxz", "gyy", "gyz", "gzz">>

\* gxx = numpy.reshape(adjusted[:len(self._gxx)], shape)
\* adjusted = adjusted[len(self._gxx):]
PlotBlock(s, st, c, size) ==
    IF st.raised # "" \/ ~Truthy(Chan(s, c)) THEN st
    ELSE IF Len(Take(st.adjusted, DataLen(Chan(s, c)))) # size
    THEN [st EXCEPT !.raised = "ValueError"]
    ELSE [adjusted |-> Drop(st.adjusted, DataLen(Chan(s, c))),
          writes |-> Append(st.writes,
                            <<c, Take(st.adjusted, DataLen(Chan(s, c)))>>),
          raised |-> ""]

RECURSIVE PlotBlocks(_, _, _, _)
PlotBlocks(s, st, size, k) ==
    IF k > Len(PlotOrder) THEN st
    ELSE PlotBlocks(s, PlotBlock(s, st, PlotOrder[k], size), size, k + 1)

PlotResult(st, size) ==
    Result("plot_adjustment", <<size>>, st.raised, NoneVal, st.writes, <<>>)

PlotAdjustmentCall(s, size) ==
    PlotResult(PlotBlocks(s, [adjusted |-> Dot(BuildSensibilityCall(s).val),
                              writes |-> <<>>, raised |-> ""], size, 1),
               size)

PlotAdjustment ==
    /\ Ready
    /\ BuildSensibilityCall(self).raised = ""
    /\ \E size \in Shapes : ret' = PlotAdjustmentCall(self, size)
    /\ UNCHANGED <<args, self>>

Next ==
    \/ Construct
    \/ BuildSensibility
    \/ BuildFirstDeriv
    \/ GetDataArray
    \/ GetDataCov
    \/ DepthWeights
    \/ PlotAdjustment

Spec == Init /\ [][Next]_vars

(***************************************************************************)
(* The same program given a gz container whose three sequences need not    *)
(* have one length: loc(i) for i < len(gz), .array and .std are read       *)
(* independently by the three assemblers.                                  *)
(***************************************************************************)
RaggedData(c, m, a, u) ==
    [loc   |-> [t \in 1..m |-> LocOf(c, t)],
     array |-> [t \in 1..a |-> 100 * ChanIdx(c) + t],
     std   |-> [t \in 1..u |-> 4 * ChanIdx(c) + t]]

RaggedChans(m, a, u) ==
    [c \in ChannelNames |->
        IF c = "gz" THEN RaggedData(c, m, a, u)
        ELSE IF c = "gzz" THEN Observations(c, 2) ELSE NoneVal]

InitShapes ==
    /\ \E m \in 0..MaxObs, a \in 0..MaxObs, u \in 0..MaxObs :
         args = MkArgs(BaseGrid[1][1], BaseGrid[2][1], BaseGrid[3][1],
                       BaseGrid[1][2], BaseGrid[2][2], BaseGrid[3][2],
                       RaggedChans(m, a, u))
    /\ self = NoneVal
    /\ ret = NoneVal

SpecShapes == InitShapes /\ [][Next]_vars

(***************************************************************************)
(* The same program on well-formed grids that have up to one long axis,    *)
(* with the channels of BaseChans.                                         *)
(***************************************************************************)
CellCounts == {1, 2, 7}

LongGrids ==
    {g \in CellCounts \X CellCounts \X CellCounts :
        Cardinality({d \in 1..3 : g[d] > 2}) <= 1}

InitIndex ==
    /\ \E g \in LongGrids :
         args = MkArgs(ProperBox, ProperBox, ProperBox, g[1], g[2], g[3],
                       MkChans(BaseChans))
    /\ self = NoneVal
    /\ ret = NoneVal

SpecIndex == InitIndex /\ [][Next]_vars

(***************************************************************************)
(* Properties.  The layout the specification describes, stated on the      *)
(* constructor arguments independently of the assembly code.               *)
(***************************************************************************)
ArgOf(a, c) ==
    CASE c = "gz" -> a.gz [] c = "gxx" -> a.gxx [] c = "gxy" -> a.gxy
      [] c = "gxz" -> a.gxz [] c = "gyy" -> a.gyy [] c = "gyz" -> a.gyz
      [] c = "gzz" -> a.gzz

\* observation count of the k-th declared channel, 0 when absent
CountOf(a, k) ==
    IF ArgOf(a, Channels[k]) = NoneVal THEN 0
    ELSE DataLen(ArgOf(a, Channels[k]))

RECURSIVE RowsBefore(_, _)
\* observation counts of the channels declared before the k-th
RowsBefore(a, k) ==
    IF k <= 1 THEN 0 ELSE RowsBefore(a, k - 1) + CountOf(a, k - 1)

TotalRows(a) == RowsBefore(a, Len(Channels) + 1)

\* the (channel, observation) pairs, and the row each one owns
Pairs(a) ==
    {<<k, t>> \in (1..Len(Channels)) \X (1..MaxObs + 1) : t <= CountOf(a, k)}

RowOf(a, pr) == RowsBefore(a, pr[1]) + pr[2]

\* a sensibility row computed with the kernel and location of one pair
RowIsOf(a, row, pr) ==
    /\ Len(row) >= 1
    /\ \A i \in 1..Len(row) :
          /\ row[i].f = Channels[pr[1]]
          /\ row[i].at = ArgOf(a, Channels[pr[1]]).loc[pr[2]]

AllAbsent(a) == \A c \in ChannelNames : ArgOf(a, c) = NoneVal

NoObservation(a) == \A c \in ChannelNames : ~Truthy(ArgOf(a, c))

\* C1 (as stated): the constructor raises RuntimeError exactly when all seven
\* channels are absent; then nothing is stored and no assembly operation
\* runs; with at least one channel present construction succeeds.
C1_AsStated ==
    ret # NoneVal =>
       IF AllAbsent(args)
       THEN ret.op = "__init__" /\ ret.raised = "RuntimeError"
                /\ self = NoneVal
       ELSE self # NoneVal /\ (ret.op = "__init__" => ret.raised = "")

\* C1 (amended): the constructor raises RuntimeError exactly when no channel
\* holds an observation (every channel absent or empty); then nothing is
\* stored and no assembly operation ever runs; with at least one channel
\* holding an observation construction succeeds and stores the arguments.
C1_Constructor ==
    ret # NoneVal =>
       IF NoObservation(args)
       THEN ret.op = "__init__" /\ ret.raised = "RuntimeError"
                /\ self = NoneVal
       ELSE self = Fields(args) /\ (ret.op = "__init__" => ret.raised = "")

C1_Witness ==
    /\ AllAbsent(args)
    /\ ret # NoneVal /\ ret.op = "__init__" /\ ret.raised = "RuntimeError"
    /\ self = NoneVal

\* C2: on a well-formed grid the sensibility matrix has M rows, M the sum
\* of the observation counts of the present channels, and nx*ny*nz columns
\* in every row.
C2_Shape ==
    (Returned("_build_sensibility") /\ ValidGrid(args)) =>
       /\ Len(ret.val) = TotalRows(args)
       /\ \A r \in 1..Len(ret.val) :
             Len(ret.val[r]) = args.nx * args.ny * args.nz

\* C3: every (present channel, observation) pair owns exactly one row of
\* the sensibility matrix, at the index (observations of the channels
\* declared before it) + t, computed with that channel's kernel at that
\* observation's location; there are no other rows.
C3_RowBlocks ==
    (Returned("_build_sensibility") /\ ValidGrid(args)) =>
       /\ Len(ret.val) = Cardinality(Pairs(args))
       /\ \A pr \in Pairs(args) :
             /\ RowOf(args, pr) \in 1..Len(ret.val)
             /\ RowIsOf(args, ret.val[RowOf(args, pr)], pr)

C3_Witness ==
    /\ Returned("_build_sensibility") /\ ValidGrid(args)
    /\ Cardinality({k \in 1..Len(Channels) : CountOf(args, k) >= 1}) >= 2
    /\ \E k \in 1..Len(Channels) : CountOf(args, k) >= 2
    /\ Len(ret.val) >= 3

\* C4: entry r of the data vector and diagonal entry (r, r) of the data
\* covariance belong to the (channel, observation) pair that row r of the
\* sensibility matrix was computed for.
C4_SameMeasurement ==
    ((Returned("_get_data_array") \/ Returned("_get_data_cov"))
        /\ ValidGrid(args)) =>
       LET sens == BuildSensibilityCall(self).val
       IN /\ Len(ret.val) = Len(sens)
          /\ \A r \in 1..Len(sens) : \E pr \in Pairs(args) :
                /\ RowIsOf(args, sens[r], pr)
                /\ LET d == ArgOf(args, Channels[pr[1]])
                   IN IF ret.op = "_get_data_array"
                      THEN ret.val[r] = d.array[pr[2]]
                      ELSE ret.val[r][r] = d.std[pr[2]] * d.std[pr[2]]

C4_Witness ==
    /\ Returned("_get_data_array") /\ ValidGrid(args)
    /\ Cardinality({k \in 1..Len(Channels) : CountOf(args, k) >= 1}) >= 2
    /\ CountOf(args, 2) >= 1 /\ CountOf(args, 3) >= 1
    /\ Len(ret.val) >= 3

\* C5: the data covariance is M x M, its diagonal entry r is the square of
\* the r-th uncertainty of the present channels taken in declared order,
\* and every off-diagonal entry is zero.
C5_DiagonalCov ==
    Returned("_get_data_cov") =>
       /\ Len(ret.val) = TotalRows(args)
       /\ \A r \in 1..Len(ret.val) : Len(ret.val[r]) = TotalRows(args)
       /\ \A pr \in Pairs(args) :
             LET sd == ArgOf(args, Channels[pr[1]]).std[pr[2]]
             IN ret.val[RowOf(args, pr)][RowOf(args, pr)] = sd * sd
       /\ \A r \in 1..Len(ret.val) : \A c \in 1..Len(ret.val) :
             r # c => ret.val[r][c] = 0

C5_Witness ==
    /\ Returned("_get_data_cov")
    /\ Cardinality({k \in 1..Len(Channels) : CountOf(args, k) >= 1}) >= 2
    /\ Len(ret.val) >= 3

PositiveCounts(a) == a.nx >= 1 /\ a.ny >= 1 /\ a.nz >= 1

\* index(i, j, k) = k*nx*ny + j*nx + i
Index(a, i, j, k) == k * a.nx * a.ny + j * a.nx + i

Count(row, v) == Cardinality({c \in 1..Len(row) : row[c] = v})

\* C6: for nx, ny, nz >= 1 the first-derivative matrix has
\* (nx-1)*ny*nz + nx*(ny-1)*nz + nx*ny*(nz-1) rows and nx*ny*nz columns,
\* and every row holds exactly one +1 and one -1, the rest zero, and so
\* sums to 0.
C6_DerivShape ==
    (ret # NoneVal /\ ret.op = "_build_first_deriv" /\ PositiveCounts(args))
    =>
       /\ ret.raised = ""
       /\ Len(ret.val) = (args.nx - 1) * args.ny * args.nz
                           + args.nx * (args.ny - 1) * args.nz
                           + args.nx * args.ny * (args.nz - 1)
       /\ \A r \in 1..Len(ret.val) :
             /\ Len(ret.val[r]) = args.nx * args.ny * args.nz
             /\ Count(ret.val[r], 1) = 1
             /\ Count(ret.val[r], 0 - 1) = 1
             /\ Count(ret.val[r], 0) = Len(ret.val[r]) - 2

C6_Witness ==
    /\ Returned("_build_first_deriv")
    /\ args.nx >= 2 /\ args.ny >= 2 /\ args.nz >= 2
    /\ Len(ret.val) >= 12

\* a row with +1 at column lo and -1 at column hi (0-based), zero elsewhere
IsDifference(row, lo, hi) ==
    \A c \in 1..Len(row) :
       row[c] = IF c = lo + 1 THEN 1 ELSE IF c = hi + 1 THEN 0 - 1 ELSE 0

\* C7: the first-derivative matrix is the x block, then the y block, then
\* the z block; inside a block the rows run z-outer, y-middle, x-inner over
\* the cells that have a +1 neighbour along the block's axis, and the row
\* of cell (i, j, k) has +1 at index(i, j, k) and -1 at the index of that
\* neighbour: every adjacent pair has one row and no row wraps around.
C7_DerivBlocks ==
    (Returned("_build_first_deriv") /\ PositiveCounts(args)) =>
       LET nx == args.nx
           ny == args.ny
           nz == args.nz
           xRows == (nx - 1) * ny * nz
           yRows == nx * (ny - 1) * nz
       IN /\ \A k \in 0..nz - 1 : \A j \in 0..ny - 1 : \A i \in 0..nx - 2 :
                IsDifference(
                   ret.val[k * ny * (nx - 1) + j * (nx - 1) + i + 1],
                   Index(args, i, j, k), Index(args, i + 1, j, k))
          /\ \A k \in 0..nz - 1 : \A j \in 0..ny - 2 : \A i \in 0..nx - 1 :
                IsDifference(
                   ret.val[xRows + k * (ny - 1) * nx + j * nx + i + 1],
                   Index(args, i, j, k), Index(args, i, j + 1, k))
          /\ \A k \in 0..nz - 2 : \A j \in 0..ny - 1 : \A i \in 0..nx - 1 :
                IsDifference(
                   ret.val[xRows + yRows + k * ny * nx + j * nx + i + 1],
                   Index(args, i, j, k), Index(args, i, j, k + 1))

C7_Witness ==
    /\ Returned("_build_first_deriv")
    /\ args.nx = 2 /\ args.ny = 2 /\ args.nz >= 3
    /\ IsDifference(ret.val[2], 2, 3)

\* depth_k + dz/2 + z0 with depth_k = z1 + k*dz, the top of layer k
LayerBase(a, z0, k) ==
    Rat(2 * a.nz * (a.z1 + z0) + (2 * k + 1) * (a.z2 - a.z1), 2 * a.nz)

DefinedWeights(a, z0) ==
    \A k \in 0..a.nz - 1 : LayerBase(a, z0, k)[1] > 0

\* C8: depth_weights returns a P x P matrix, P = nx*ny*nz, with zero
\* off-diagonal entries; every parameter of layer k gets the same diagonal
\* value, before normalisation 1/sqrt(depth_k + dz/2 + z0)^power; every
\* diagonal entry is assigned exactly once and no write goes past P - 1.
C8_LayerWeights ==
    (ret # NoneVal /\ ret.op = "depth_weights" /\ ValidGrid(args)
        /\ DefinedWeights(args, ret.in[1])) =>
       LET P == args.nx * args.ny * args.nz
       IN /\ ret.raised = ""
          /\ Len(ret.val) = P
          /\ \A r \in 1..P : Len(ret.val[r]) = P
          /\ \A r \in 1..P : \A c \in 1..P :
                r # c => ret.val[r][c] = ZeroW
          /\ Len(ret.writes) = P
          /\ \A l \in 0..P - 1 :
                ret.writes[l + 1] =
                   <<l, PowVal(LayerBase(args, ret.in[1],
                                         l \div (args.nx * args.ny)),
                               ret.in[2])>>
          /\ \A r \in 1..P : \A q \in 1..P :
                (r - 1) \div (args.nx * args.ny)
                      = (q - 1) \div (args.nx * args.ny)
                   => ret.val[r][r] = ret.val[q][q]

\* C9: for power > 0 the diagonal of the depth weights is non-increasing
\* with the layer index, and the largest entry of the matrix is exactly 1.
C9_Monotone ==
    (Returned("depth_weights") /\ ValidGrid(args) /\ ret.in[2] > 0) =>
       /\ \A r \in 1..Len(ret.val) : \A q \in 1..Len(ret.val) :
             r < q => WLeq(ret.val[q][q], ret.val[r][r])
       /\ \E r \in 1..Len(ret.val) : ret.val[r][r] = OneW(ret.in[2])
       /\ \A r \in 1..Len(ret.val) : WLeq(ret.val[r][r], OneW(ret.in[2]))

C9_Witness ==
    /\ Returned("depth_weights") /\ ValidGrid(args) /\ ret.in[2] > 0
    /\ args.nz >= 2 /\ args.nx * args.ny >= 2
    /\ ret.val[Len(ret.val)][Len(ret.val)] # OneW(ret.in[2])

\* C10: a grid with a non-positive cell count or with inverted or empty
\* bounds is rejected by the constructor, so that no instance exists and no
\* assembly operation runs on it.
C10_RejectedAtConstruction ==
    (ret # NoneVal /\ ~ValidGrid(args)) =>
       /\ self = NoneVal
       /\ ret.op = "__init__"
       /\ ret.raised # ""

\* a present channel whose location count differs from its value count or
\* from its uncertainty count
Mismatched(a) ==
    \E c \in ChannelNames :
       /\ Truthy(ArgOf(a, c))
       /\ \/ Len(ArgOf(a, c).array) # DataLen(ArgOf(a, c))
          \/ Len(ArgOf(a, c).std) # DataLen(ArgOf(a, c))

Assemblers == {"_build_sensibility", "_get_data_array", "_get_data_cov"}

\* C11: when a present channel's location count disagrees with its value
\* count or its uncertainty count, an error is raised before assembly: none
\* of _build_sensibility, _get_data_array, _get_data_cov returns a result,
\* so no two of them return results with different row counts.
C11_ShapeMismatch ==
    (ret # NoneVal /\ Mismatched(args) /\ ret.op \in Assemblers) =>
       /\ ret.raised # ""
       /\ ret.val = NoneVal

\* C12: on a well-formed grid the block that plot_adjustment cuts out of
\* sensibility*mean for a channel is that channel's row block of the
\* sensitivity matrix, for every combination of present channels: it has
\* one entry per observation of the channel, and entry t is the product of
\* the row computed with the channel's kernel at the channel's location t.
C12_ConsumerLayout ==
    (ret # NoneVal /\ ret.op = "plot_adjustment" /\ ValidGrid(args)) =>
       \A w \in 1..Len(ret.writes) :
          /\ Len(ret.writes[w][2]) = DataLen(ArgOf(args, ret.writes[w][1]))
          /\ \A t \in 1..Len(ret.writes[w][2]) :
                RowIsOf(args, ret.writes[w][2][t].row,
                        <<ChanIdx(ret.writes[w][1]), t>>)

\* the bounds of the prism of cell (i, j, k):
\* [x1 + i*dx, x1 + (i+1)*dx] x [y1 + j*dy, ..] x [z1 + k*dz, ..]
PrismOf(a, i, j, k) ==
    <<Rat(a.x1 * a.nx + i * (a.x2 - a.x1), a.nx),
      Rat(a.x1 * a.nx + (i + 1) * (a.x2 - a.x1), a.nx),
      Rat(a.y1 * a.ny + j * (a.y2 - a.y1), a.ny),
      Rat(a.y1 * a.ny + (j + 1) * (a.y2 - a.y1), a.ny),
      Rat(a.z1 * a.nz + k * (a.z2 - a.z1), a.nz),
      Rat(a.z1 * a.nz + (k + 1) * (a.z2 - a.z1), a.nz)>>

Cells(a) == (0..a.nx - 1) \X (0..a.ny - 1) \X (0..a.nz - 1)

\* the cells next to cell c in the +x, +y and +z directions
Neighbours(a, c) ==
    {d \in Cells(a) :
        \/ d = <<c[1] + 1, c[2], c[3]>>
        \/ d = <<c[1], c[2] + 1, c[3]>>
        \/ d = <<c[1], c[2], c[3] + 1>>}

\* the unnormalised weight of layer k and the largest of them
LayerWeight(a, z0, power, k) == PowVal(LayerBase(a, z0, k), power)

TopWeight(a, z0, power) ==
    MaxW([k \in 1..a.nz |-> LayerWeight(a, z0, power, k - 1)])

\* C13: the three builders share index(i, j, k) = k*nx*ny + j*nx + i:
\* column index(i, j, k) of every sensibility row is the kernel of the
\* prism of cell (i, j, k); every first-derivative row has its +1 at the
\* index of a cell and its -1 at the index of that cell's +1 neighbour;
\* diagonal entry index(i, j, k) of the depth weights is the normalised
\* weight of layer k.
C13_IndexConvention ==
    (ret # NoneVal /\ ret.raised = "" /\ ValidGrid(args)) =>
       /\ ret.op = "_build_sensibility" =>
             \A r \in 1..Len(ret.val) : \A c \in Cells(args) :
                /\ Index(args, c[1], c[2], c[3]) + 1 <= Len(ret.val[r])
                /\ ret.val[r][Index(args, c[1], c[2], c[3]) + 1].prism
                      = PrismOf(args, c[1], c[2], c[3])
       /\ ret.op = "_build_first_deriv" =>
             \A r \in 1..Len(ret.val) :
                \E c \in Cells(args) : \E d \in Neighbours(args, c) :
                   IsDifference(ret.val[r],
                                Index(args, c[1], c[2], c[3]),
                                Index(args, d[1], d[2], d[3]))
       /\ ret.op = "depth_weights" =>
             \A c \in Cells(args) :
                /\ Index(args, c[1], c[2], c[3]) + 1 <= Len(ret.val)
                /\ ret.val[Index(args, c[1], c[2], c[3]) + 1]
                          [Index(args, c[1], c[2], c[3]) + 1]
                      = WDiv(LayerWeight(args, ret.in[1], ret.in[2], c[3]),
                             TopWeight(args, ret.in[1], ret.in[2]))

\* the rows of the x and of the y block
XRows(a) == (a.nx - 1) * a.ny * a.nz

YRows(a) == a.nx * (a.ny - 1) * a.nz

ZRows(a) == a.nx * a.ny * (a.nz - 1)

\* C14: for nx, ny, nz >= 1 the loops of _build_first_deriv end without an
\* index error; every write has its row below deriv_num and its column
\* below nx*ny*nz; the two writes of iteration m go to row m - 1, so no
\* row is written by two iterations; the first write of every non-empty
\* block is at column 0; and on return deriv_i = deriv_num, the number of
\* rows, so every row has been written.
C14_LoopCounters ==
    (ret # NoneVal /\ ret.op = "_build_first_deriv" /\ PositiveCounts(args))
    =>
       /\ ret.raised = ""
       /\ ret.fin.deriv_num = XRows(args) + YRows(args) + ZRows(args)
       /\ ret.fin.param_num = args.nx * args.ny * args.nz
       /\ ret.fin.deriv_i = ret.fin.deriv_num
       /\ Len(ret.writes) = 2 * ret.fin.deriv_num
       /\ \A w \in 1..Len(ret.writes) :
             /\ ret.writes[w][1] = (w - 1) \div 2
             /\ ret.writes[w][1] < ret.fin.deriv_num
             /\ ret.writes[w][2] \in 0..ret.fin.param_num - 1
       /\ XRows(args) > 0 => ret.writes[1][2] = 0
       /\ YRows(args) > 0 => ret.writes[2 * XRows(args) + 1][2] = 0
       /\ ZRows(args) > 0 =>
             ret.writes[2 * (XRows(args) + YRows(args)) + 1][2] = 0

\* an empty x block followed by non-empty y and z blocks
C14_Witness ==
    /\ Returned("_build_first_deriv")
    /\ args.nx = 1 /\ args.ny = 2 /\ args.nz >= 2
    /\ ret.fin.deriv_i = ret.fin.deriv_num
    /\ ret.writes[2 * YRows(args) + 1] = <<YRows(args), 0, 1>>
====
